---------------------------- MODULE Spec2Model ----------------------------
(***************************************************************************)
(* FundedFridayTradingBot (src/trading_bot.py): the account risk state,    *)
(* the trade gate, position sizing and the main loop of start_bot.         *)
(*                                                                         *)
(* Money is in whole dollars, the challenge rules are in percent, volumes  *)
(* are in hundredths of a lot and prices in thousandths of a dollar, so    *)
(* that every comparison of the source is made in exact integer            *)
(* arithmetic.                                                             *)
(***************************************************************************)
EXTENDS Integers, Sequences, FiniteSets, TLC

VARIABLES
    bot,          \* the fields of the FundedFridayTradingBot instance
    now,          \* datetime.now(): [day, hour]
    positions,    \* the broker's open positions: ticket -> [symbol, magic, time]
    orders_sent,  \* how many opening orders mt5.order_send has received
    request,      \* the last request place_trade handed to mt5.order_send
    pc,           \* where start_bot / run_trading_cycle stands
    minute_kind,  \* what the minute of current_time allows in this iteration
    sym_idx,      \* index into primary_symbols of the symbol being processed
    final_signal, \* the combined signal handed to place_trade
    account_info, \* what mt5.account_info() last returned
    status,       \* the dict last returned by check_account_status
    sizing,       \* the last call of calculate_position_size and its result
    gate,         \* the last call of check_trading_conditions: [census, ret]
    cy,           \* history of the current cycle: [halted, managed]
    breach_seen,  \* history: a refresh of this run returned a non-empty breach list
    target_seen,  \* history: a refresh of this run returned target_reached
    signals_in,   \* the argument of the last direct call of _combine_signals
    before,       \* history: the bot as it was before the last direct call
    bot_state_json, \* the content of the file bot_state.json
    unsaved,      \* history: run_trading_cycle was called since the last save_state
    managed_in    \* the last direct call of manage_positions: what it got and asked

vars == <<bot, now, positions, orders_sent, request, pc, minute_kind, sym_idx,
          final_signal, account_info, status, sizing, gate, cy, breach_seen, target_seen,
          signals_in, before, bot_state_json, unsaved, managed_in>>

---------------------------------------------------------------------------
(* Bounds of the model *)

MaxDay == 1
MaxOrders == 1

(* Program constants *)

ACCOUNT_BALANCE == 10000
MAX_CONCURRENT_TRADES == 5
MAX_TRADES_PER_SYMBOL == 3
BASE_RISK_PER_TRADE == 1
BOT_MAGIC == 234000
FRIDAY == 4
SATURDAY == 5

PRIMARY_SYMBOLS == <<"XAUUSD", "XAGUSD">>

ChallengeTypes == {"ONE_STEP"}

(* The values the broker reports *)

Hours == {12, 23}

NoAccountInfo == [none |-> TRUE, equity |-> 0, balance |-> 0]

AccountInfo(equity, balance) == [none |-> FALSE, equity |-> equity, balance |-> balance]

(* mt5.account_info() in the main loop: a breach, the start, the target *)
AccountInfos ==
    {NoAccountInfo} \cup {AccountInfo(e, ACCOUNT_BALANCE) : e \in {9400, 10000, 11000}}

Times == [day : 0..MaxDay, hour : Hours]

(* datetime.weekday(); day 0 is a Friday *)
Weekday(t) == (FRIDAY + t.day) % 7

---------------------------------------------------------------------------
(* FundedFridayTradingBot._set_challenge_rules, in percent *)
ChallengeRules(challenge_type) ==
    IF challenge_type = "ONE_STEP"
    THEN [profit_target |-> 10, max_drawdown |-> 6, daily_drawdown |-> 3,
          trailing_daily_drawdown |-> 4, trailing_drawdown |-> 8,
          min_trading_days |-> 7, min_profitable_days |-> 7]
    ELSE [profit_target |-> 8, max_drawdown |-> 8, daily_drawdown |-> 5,
          trailing_daily_drawdown |-> 7, trailing_drawdown |-> 10,
          min_trading_days |-> 7, min_profitable_days |-> 7]

(* FundedFridayTradingBot.__init__ *)
NewBot(account_balance, challenge_type) ==
    [account_balance |-> account_balance,
     initial_balance |-> account_balance,
     challenge_type |-> challenge_type,
     current_equity |-> account_balance,
     all_time_high_equity |-> account_balance,
     daily_high_equity |-> account_balance,
     daily_start_balance |-> account_balance,
     total_trades |-> 0,
     profitable_days |-> 0,
     trading_days |-> {},
     daily_profit |-> 0,
     total_profit |-> 0,
     consecutive_losses |-> 0,
     active_positions |-> [t \in {} |-> [symbol |-> "", type |-> "", volume |-> 0]],
     is_trading_enabled |-> TRUE]

(* a limit that is breached only when exceeded *)
ReachesLimit_Strict(current, base, pct) == current * 100 > base * pct

(* current >= base * pct%, the comparison of a drawdown with its limit *)
ReachesLimit(current, base, pct) == current * 100 >= base * pct

(* a breach list that leaves out the daily drawdown *)
Breaches_NoDaily(b) ==
    LET r == ChallengeRules(b.challenge_type) IN
    (IF ReachesLimit(b.initial_balance - b.current_equity,
                     b.initial_balance, r.max_drawdown)
     THEN {"Maximum Drawdown"} ELSE {})
    \cup
    (IF ReachesLimit(b.all_time_high_equity - b.current_equity,
                     b.all_time_high_equity, r.trailing_drawdown)
     THEN {"Trailing Drawdown"} ELSE {})
    \cup
    (IF ReachesLimit(b.daily_high_equity - b.current_equity,
                     b.daily_high_equity, r.trailing_daily_drawdown)
     THEN {"Trailing Daily Drawdown"} ELSE {})

(* the "breaches" list of check_account_status *)
Breaches(b) ==
    LET r == ChallengeRules(b.challenge_type) IN
    (IF ReachesLimit(b.initial_balance - b.current_equity,
                     b.initial_balance, r.max_drawdown)
     THEN {"Maximum Drawdown"} ELSE {})
    \cup
    (IF ReachesLimit(b.all_time_high_equity - b.current_equity,
                     b.all_time_high_equity, r.trailing_drawdown)
     THEN {"Trailing Drawdown"} ELSE {})
    \cup
    (IF ReachesLimit(b.daily_start_balance - b.current_equity,
                     b.daily_start_balance, r.daily_drawdown)
     THEN {"Daily Drawdown"} ELSE {})
    \cup
    (IF ReachesLimit(b.daily_high_equity - b.current_equity,
                     b.daily_high_equity, r.trailing_daily_drawdown)
     THEN {"Trailing Daily Drawdown"} ELSE {})

(* profit_percentage >= self.profit_target *)
TargetReached(b) ==
    (b.current_equity - b.initial_balance) * 100
        >= b.initial_balance * ChallengeRules(b.challenge_type).profit_target

(* the dict check_account_status returns when account_info is None: it has *)
(* no "can_trade", "breaches" or "target_reached" key                      *)
ErrorStatus ==
    [status |-> "error", target_reached |-> FALSE, breaches |-> {},
     can_trade |-> FALSE]

(* a high-water mark that follows the equity down *)
StoreSnapshot_Overwrite(b, info) ==
    [b EXCEPT !.current_equity = info.equity,
              !.account_balance = info.balance,
              !.all_time_high_equity = info.equity]

(* the fields check_account_status stores from the snapshot *)
StoreSnapshot(b, info) ==
    LET b1 == [b EXCEPT !.current_equity = info.equity,
                        !.account_balance = info.balance]
    IN  IF b1.current_equity > b1.all_time_high_equity
        THEN [b1 EXCEPT !.all_time_high_equity = b1.current_equity]
        ELSE b1

(* FundedFridayTradingBot.check_account_status: [bot, status] *)
check_account_status(b, info) ==
    IF info.none
    THEN [bot |-> b, status |-> ErrorStatus]
    ELSE LET b2 == StoreSnapshot(b, info)
             breaches == Breaches(b2)
         IN  [bot |-> b2,
              status |-> [status |-> "ok",
                          target_reached |-> TargetReached(b2),
                          breaches |-> breaches,
                          can_trade |-> (breaches = {}) /\ b2.is_trading_enabled]]


(* a count that forgets the symbol *)
SymbolTrades_Any(b, symbol) == Cardinality(DOMAIN b.active_positions)

(* sum(1 for pos in self.active_positions.values() if pos["symbol"] == symbol) *)
SymbolTrades(b, symbol) ==
    Cardinality({t \in DOMAIN b.active_positions :
                    b.active_positions[t].symbol = symbol})

(* a cap that denies only once it is exceeded *)
AtCap_Over(count, cap) == count > cap

(* symbol_trades >= self.max_trades_per_symbol and                         *)
(* len(self.active_positions) >= self.max_concurrent_trades                *)
AtCap(count, cap) == count >= cap

(* FundedFridayTradingBot.check_trading_conditions: [bot, status, ret];    *)
(* ret is "KeyError" when the error dict is indexed with "can_trade"       *)
check_trading_conditions(b, symbol, info, t) ==
    LET r == check_account_status(b, info)
        ret == IF r.status.status = "error" THEN "KeyError"
               ELSE IF ~r.status.can_trade THEN "False"
               ELSE IF Weekday(t) >= SATURDAY THEN "False"
               ELSE IF AtCap(SymbolTrades(r.bot, symbol), MAX_TRADES_PER_SYMBOL)
                    THEN "False"
               ELSE IF AtCap(Cardinality(DOMAIN r.bot.active_positions),
                             MAX_CONCURRENT_TRADES)
                    THEN "False"
               ELSE "True"
    IN  [bot |-> r.bot, status |-> r.status, ret |-> ret]

---------------------------------------------------------------------------
(* Position sizing *)

Abs(x) == IF x < 0 THEN -x ELSE x

(* Python's round() of the non-negative fraction n/d: ties go to the even  *)
(* integer                                                                 *)
RoundHalfEven(n, d) ==
    LET q == n \div d
        r == n % d
    IN  IF 2 * r < d THEN q
        ELSE IF 2 * r > d THEN q + 1
        ELSE IF q % 2 = 0 THEN q ELSE q + 1

(* 'JPY' in symbol *)
IsJPY(symbol) == symbol \in {"USDJPY"}

(* two independent adjustments, which multiply *)
StreakFactor_Stacked(b) ==
    ((IF b.consecutive_losses >= 3 THEN 5 ELSE 10)
        * (IF b.total_trades > 10 THEN 12 ELSE 10)) \div 10

(* the adjustment of risk_amount by the streak, in tenths *)
StreakFactor(b) ==
    IF b.consecutive_losses >= 3 THEN 5
    ELSE IF b.consecutive_losses = 0 /\ b.total_trades > 10 THEN 12
    ELSE 10

(* risk_amount after the adjustment, in thousandths of a dollar: equity    *)
(* times a percentage times tenths                                         *)
risk_amount(b) == b.current_equity * BASE_RISK_PER_TRADE * StreakFactor(b)

(* the upper limit of the max(0.01, min(position_size, ...)) of each class,*)
(* in hundredths of a lot                                                  *)
ClassMax(symbol) ==
    IF symbol = "XAUUSD" THEN 500
    ELSE IF symbol = "XAGUSD" THEN 1000
    ELSE 200

(* max(0.01, min(n/d, cmax)) as a fraction [n, d] of hundredths of a lot   *)
ClampSize(n, d, cmax) ==
    IF n >= cmax * d THEN [n |-> cmax, d |-> 1]
    ELSE IF n <= d THEN [n |-> 1, d |-> 1]
    ELSE [n |-> n, d |-> d]

(* round(position_size / lot_step) * lot_step, then max(min_lot, .) *)
SnapToStep(c, min_lot, lot_step) ==
    LET snapped == RoundHalfEven(c.n, c.d * lot_step) * lot_step
    IN  IF min_lot >= snapped THEN min_lot ELSE snapped

(* FundedFridayTradingBot.calculate_position_size, in hundredths of a lot. *)
(* A division by zero is caught by the except clause, which returns 0.01.  *)
calculate_position_size(b, symbol, entry_price, stop_loss, symbol_info) ==
    IF symbol_info.none THEN 0
    ELSE
    (* risk_amount, times the 100 hundredths of a lot, is risk_n / risk_d: *)
    (* equity times a percentage times tenths                              *)
    LET risk_n == risk_amount(b)
        risk_d == 10
        pip_size == IF IsJPY(symbol) THEN symbol_info.point * 10 ELSE symbol_info.point
        dist == Abs(entry_price - stop_loss)
        cmax == ClassMax(symbol)
    IN  IF pip_size = 0 THEN 1
        ELSE IF dist = 0 THEN 0
        ELSE IF symbol \notin {"XAUUSD", "XAGUSD"}
                /\ (entry_price = 0 \/ symbol_info.trade_contract_size = 0) THEN 1
        ELSE IF symbol_info.volume_step = 0 THEN 1
        ELSE
        LET n == IF symbol \in {"XAUUSD", "XAGUSD"}
                 THEN risk_n * pip_size
                 ELSE risk_n * entry_price
            d == IF symbol = "XAUUSD" THEN risk_d * dist
                 ELSE IF symbol = "XAGUSD" THEN risk_d * dist * 5
                 ELSE risk_d * dist * symbol_info.trade_contract_size
        IN  SnapToStep(ClampSize(n, d, cmax),
                       symbol_info.volume_min, symbol_info.volume_step)

---------------------------------------------------------------------------
(* Signals *)

Timeframes == {"M15", "H1", "H4"}

(* the weights of H4 and M15 exchanged *)
Weight_Swapped(tf) == IF tf = "H4" THEN 1 ELSE IF tf = "H1" THEN 2 ELSE 3

(* weights.get(tf, 1) *)
Weight(tf) == IF tf = "H4" THEN 3 ELSE IF tf = "H1" THEN 2 ELSE 1

RECURSIVE SumOver(_, _, _)
SumOver(signals, tfs, direction) ==
    IF tfs = {} THEN 0
    ELSE LET tf == CHOOSE x \in tfs : TRUE
         IN  (IF signals[tf].signal = direction
              THEN signals[tf].strength * Weight(tf) ELSE 0)
             + SumOver(signals, tfs \ {tf}, direction)

(* FundedFridayTradingBot._combine_signals: max() over the dict returns    *)
(* the first key, in the order BUY, SELL, HOLD, that has the highest score *)
_combine_signals(signals) ==
    LET buy == SumOver(signals, DOMAIN signals, "BUY")
        sell == SumOver(signals, DOMAIN signals, "SELL")
        hold == SumOver(signals, DOMAIN signals, "HOLD")
    IN  IF buy >= sell /\ buy >= hold THEN [signal |-> "BUY", strength |-> buy]
        ELSE IF sell >= hold THEN [signal |-> "SELL", strength |-> sell]
        ELSE [signal |-> "HOLD", strength |-> hold]

---------------------------------------------------------------------------
(* Positions *)

HoursBetween(t0, t1) == (t1.day - t0.day) * 24 + (t1.hour - t0.hour)

(* a policy that closes at an age of 24 hours and at a profit of 2% *)
_should_close_position_AtLimit(b, position_time, profit, current_time) ==
    \/ Weekday(current_time) = FRIDAY /\ current_time.hour >= 23
    \/ HoursBetween(position_time, current_time) >= 24
    \/ profit * 100 >= b.current_equity * 2

(* FundedFridayTradingBot._should_close_position *)
_should_close_position(b, position_time, profit, current_time) ==
    \/ Weekday(current_time) = FRIDAY /\ current_time.hour >= 23
    \/ HoursBetween(position_time, current_time) > 24
    \/ profit * 100 > b.current_equity * 2

Without(f, k) == [x \in DOMAIN f \ {k} |-> f[x]]

(* a close that treats a profit of 0 as a win *)
RecordClose_ZeroWins(b, ticket, profit) ==
    [b EXCEPT !.consecutive_losses = IF profit >= 0 THEN 0 ELSE @ + 1,
              !.daily_profit = @ + profit,
              !.total_profit = @ + profit,
              !.active_positions = Without(@, ticket)]

(* FundedFridayTradingBot.close_position when order_send returns           *)
(* TRADE_RETCODE_DONE                                                      *)
RecordClose(b, ticket, profit) ==
    [b EXCEPT !.consecutive_losses = IF profit > 0 THEN 0 ELSE @ + 1,
              !.daily_profit = @ + profit,
              !.total_profit = @ + profit,
              !.active_positions = Without(@, ticket)]

(* a day counts only when its profit exceeds 0.1% *)
daily_reset_Strict(b) ==
    LET b1 == IF b.daily_profit * 1000 > b.current_equity
              THEN [b EXCEPT !.profitable_days = @ + 1] ELSE b
    IN  [b1 EXCEPT !.daily_profit = 0,
                   !.daily_start_balance = b1.current_equity,
                   !.daily_high_equity = b1.current_equity]

(* a reset that leaves daily_profit as it is *)
daily_reset_KeepProfit(b) ==
    LET b1 == IF b.daily_profit * 1000 >= b.current_equity
              THEN [b EXCEPT !.profitable_days = @ + 1] ELSE b
    IN  [b1 EXCEPT !.daily_start_balance = b1.current_equity,
                   !.daily_high_equity = b1.current_equity]

(* a reset that leaves daily_high_equity as it is *)
daily_reset_NoHigh(b) ==
    LET b1 == IF b.daily_profit * 1000 >= b.current_equity
              THEN [b EXCEPT !.profitable_days = @ + 1] ELSE b
    IN  [b1 EXCEPT !.daily_profit = 0,
                   !.daily_start_balance = b1.current_equity]

(* FundedFridayTradingBot.daily_reset *)
daily_reset(b) ==
    LET b1 == IF b.daily_profit * 1000 >= b.current_equity
              THEN [b EXCEPT !.profitable_days = @ + 1] ELSE b
    IN  [b1 EXCEPT !.daily_profit = 0,
                   !.daily_start_balance = b1.current_equity,
                   !.daily_high_equity = b1.current_equity]


---------------------------------------------------------------------------
(* What the broker and the market data return *)

MinuteKinds == {"hour", "quarter", "five", "idle"}

ProfitValues == {-100, 300}
CloseOutcomes == {"done", "rejected", "raise", "missing"}
OrderResults == {"done", "rejected", "raise"}

NoTick == [none |-> TRUE, ask |-> 0, bid |-> 0]
Ticks == {NoTick, [none |-> FALSE, ask |-> 2000100, bid |-> 2000000]}

NoSymbolInfo ==
    [none |-> TRUE, point |-> 0, trade_contract_size |-> 0,
     volume_min |-> 0, volume_step |-> 0]

SymbolInfos(symbol) ==
    {NoSymbolInfo,
     [none |-> FALSE, point |-> IF symbol = "XAUUSD" THEN 10 ELSE 1,
      trade_contract_size |-> IF symbol = "XAUUSD" THEN 100 ELSE 5000,
      volume_min |-> 1, volume_step |-> 1]}

(* what get_market_analysis returns for one timeframe *)
AnalysisValues ==
    {[signal |-> "HOLD", strength |-> 0], [signal |-> "HOLD", strength |-> 2],
     [signal |-> "BUY", strength |-> 3], [signal |-> "SELL", strength |-> 3]}

(* analysis.get('atr', 0.001), in thousandths *)
Atr(analysis) == IF "atr" \in DOMAIN analysis THEN analysis.atr ELSE 1

(* the request place_trade hands to mt5.order_send *)
TradeRequest(symbol, trade_type, volume, entry_price, stop_loss, take_profit) ==
    [symbol |-> symbol, type |-> trade_type, volume |-> volume,
     price |-> entry_price, sl |-> stop_loss, tp |-> take_profit,
     magic |-> BOT_MAGIC]

NoRequest == TradeRequest("", "", 0, 0, 0, 0)

NoSignal == [signal |-> "HOLD", strength |-> 0]
NoSignals == [tf \in {} |-> NoSignal]
NoStatus == [status |-> "none", target_reached |-> FALSE, breaches |-> {},
             can_trade |-> FALSE]
NoGate == [symbol |-> "", ret |-> "none"]
NoSizing == [symbol |-> "", entry_price |-> 0, stop_loss |-> 0,
             symbol_info |-> NoSymbolInfo, risk_amount |-> 0, volume |-> -1]
NewCycle == [halted |-> FALSE, managed |-> FALSE]
NoPass == [got |-> "none"]

NotBefore(t, t0) == t.day > t0.day \/ (t.day = t0.day /\ t.hour >= t0.hour)

(* what the histories record of a refresh *)
SawBreach(st) == st.status = "ok" /\ st.breaches # {}
SawTarget(st) == st.status = "ok" /\ st.target_reached

---------------------------------------------------------------------------
(* Persistence *)

(* os.path.exists("bot_state.json") is false *)
NoFile == [exists |-> FALSE]

(* the lists without repetition of the members of S: what list(S) can be *)
ListsOf(S) ==
    {q \in [1..Cardinality(S) -> S] : \A d \in S : \E i \in DOMAIN q : q[i] = d}

(* set(l) *)
SetOf(l) == {l[i] : i \in DOMAIN l}

(* a save that writes account_balance where all_time_high_equity belongs *)
save_state_NoHigh(b, days) ==
    [exists |-> TRUE,
     account_balance |-> b.account_balance,
     current_equity |-> b.current_equity,
     all_time_high_equity |-> b.account_balance,
     total_trades |-> b.total_trades,
     profitable_days |-> b.profitable_days,
     trading_days |-> days,
     total_profit |-> b.total_profit,
     consecutive_losses |-> b.consecutive_losses]

(* FundedFridayTradingBot.save_state: the content of bot_state.json, days  *)
(* being list(self.trading_days)                                           *)
save_state(b, days) ==
    [exists |-> TRUE,
     account_balance |-> b.account_balance,
     current_equity |-> b.current_equity,
     all_time_high_equity |-> b.all_time_high_equity,
     total_trades |-> b.total_trades,
     profitable_days |-> b.profitable_days,
     trading_days |-> days,
     total_profit |-> b.total_profit,
     consecutive_losses |-> b.consecutive_losses]

(* FundedFridayTradingBot.load_state *)
load_state(b, file) ==
    IF ~file.exists THEN b
    ELSE [b EXCEPT !.account_balance = file.account_balance,
                   !.current_equity = file.current_equity,
                   !.all_time_high_equity = file.all_time_high_equity,
                   !.total_trades = file.total_trades,
                   !.profitable_days = file.profitable_days,
                   !.trading_days = SetOf(file.trading_days),
                   !.total_profit = file.total_profit,
                   !.consecutive_losses = file.consecutive_losses]

---------------------------------------------------------------------------
(* the state after construction, and start_bot after load_state without a *)
(* file                                                                   *)
Constructed ==
    /\ now = [day |-> 0, hour |-> 12]
    /\ positions = [t \in {} |-> [symbol |-> "", magic |-> 0, time |-> now]]
    /\ orders_sent = 0
    /\ request = NoRequest
    /\ minute_kind = "idle"
    /\ sym_idx = 0
    /\ final_signal = NoSignal
    /\ account_info = NoAccountInfo
    /\ status = NoStatus
    /\ sizing = NoSizing
    /\ gate = NoGate
    /\ cy = NewCycle
    /\ breach_seen = FALSE
    /\ target_seen = FALSE
    /\ signals_in = NoSignals
    /\ before = bot
    /\ bot_state_json = NoFile
    /\ unsaved = FALSE
    /\ managed_in = NoPass

Init ==
    /\ bot \in {NewBot(ACCOUNT_BALANCE, c) : c \in ChallengeTypes}
    /\ pc = "loop"
    /\ Constructed

(* One iteration of the main loop begins: schedule.run_pending() runs      *)
(* daily_reset when 00:01 of a new day has passed, then current_time is    *)
(* read and its minute decides what the iteration does.                    *)
LoopIterIn(times, kinds) ==
    /\ pc = "loop"
    /\ \E t \in times, k \in kinds :
        /\ NotBefore(t, now)
        /\ now' = t
        /\ bot' = IF t.day > now.day THEN daily_reset(bot) ELSE bot
        /\ minute_kind' = k
        /\ pc' = IF k \in {"hour", "quarter"} THEN "cycle"
                 ELSE IF k = "five" THEN "check" ELSE "loop"
    /\ sym_idx' = 0
    /\ final_signal' = NoSignal
    /\ account_info' = NoAccountInfo
    /\ status' = NoStatus
    /\ gate' = NoGate
    /\ cy' = NewCycle
    /\ request' = NoRequest
    /\ UNCHANGED <<managed_in, positions, orders_sent, sizing, breach_seen, target_seen,
                   signals_in, before,
                   bot_state_json, unsaved>>

(* the main loop at any time of the run and any minute *)
LoopIter == LoopIterIn(Times, MinuteKinds)

(* an exception that leaves run_trading_cycle: the except clause of the    *)
(* main loop, which sleeps and begins the next iteration                   *)
ExceptInCycle_Propagates == "loop"

(* except Exception in run_trading_cycle: the error is logged and the      *)
(* cycle returns                                                           *)
ExceptInCycle == "cycle_end"

(* run_trading_cycle, its first check_account_status *)
CycleRefreshIn(infos) ==
    /\ pc = "cycle"
    /\ \E info \in infos :
        LET r == check_account_status(bot, info) IN
        /\ bot' = r.bot
        /\ account_info' = info
        /\ status' = r.status
        /\ breach_seen' = (breach_seen \/ SawBreach(r.status))
        /\ target_seen' = (target_seen \/ SawTarget(r.status))
        /\ cy' = [halted |-> r.status.status = "ok"
                               /\ (r.status.breaches # {} \/ r.status.target_reached
                                   \/ ~r.bot.is_trading_enabled),
                  managed |-> FALSE]
        /\ pc' = IF r.status.status = "error" THEN ExceptInCycle
                 ELSE IF ~r.status.can_trade THEN "cycle_end"
                 ELSE "manage"
    /\ UNCHANGED <<managed_in, now, positions, orders_sent, request, minute_kind, sym_idx,
                   final_signal, sizing, gate,
                   signals_in, before,
                   bot_state_json>>
    /\ unsaved' = TRUE

(* the first refresh with any snapshot of the main loop *)
CycleRefresh == CycleRefreshIn(AccountInfos)

(* FundedFridayTradingBot.close_position: [bot, positions] *)
close_position(b, pos, ticket, outcome, profit) ==
    IF outcome = "missing" THEN [bot |-> b, positions |-> Without(pos, ticket)]
    ELSE IF outcome = "done"
    THEN [bot |-> RecordClose(b, ticket, profit), positions |-> Without(pos, ticket)]
    ELSE [bot |-> b, positions |-> pos]

Lowest(S) == CHOOSE x \in S : \A y \in S : x <= y

(* the loop of manage_positions over the positions positions_get          *)
(* returned: [bot, positions, requested], requested being the tickets      *)
(* close_position was called for                                           *)
RECURSIVE ManageLoop(_, _, _, _, _, _, _)
ManageLoop(b, pos, todo, seen_profit, outcome, profit, current_time) ==
    IF todo = {} THEN [bot |-> b, positions |-> pos, requested |-> {}]
    ELSE LET ticket == Lowest(todo)
             closes == /\ pos[ticket].magic = BOT_MAGIC
                       /\ _should_close_position(b, pos[ticket].time,
                                                 seen_profit[ticket], current_time)
             r == IF closes
                  THEN close_position(b, pos, ticket, outcome[ticket], profit[ticket])
                  ELSE [bot |-> b, positions |-> pos]
             rest == ManageLoop(r.bot, r.positions, todo \ {ticket}, seen_profit,
                                outcome, profit, current_time)
         IN  [rest EXCEPT !.requested = IF closes THEN @ \cup {ticket} ELSE @]

(* FundedFridayTradingBot.manage_positions *)
ManagePositions ==
    /\ pc = "manage"
    /\ \E got \in {"None", "raise", "list"} :
        IF got = "list"
        THEN \E seen_profit \in [DOMAIN positions -> ProfitValues],
                outcome \in [DOMAIN positions -> CloseOutcomes],
                profit \in [DOMAIN positions -> ProfitValues] :
                LET r == ManageLoop(bot, positions, DOMAIN positions, seen_profit,
                                    outcome, profit, now)
                IN  bot' = r.bot /\ positions' = r.positions
        ELSE UNCHANGED <<bot, positions>>
    /\ cy' = [cy EXCEPT !.managed = TRUE]
    /\ pc' = "gate"
    /\ sym_idx' = 1
    /\ UNCHANGED <<managed_in, now, orders_sent, request, minute_kind, final_signal, account_info,
                   status, sizing, gate, breach_seen, target_seen,
                   signals_in, before,
                   bot_state_json, unsaved>>

(* the for loop of run_trading_cycle moves to the next primary symbol *)
NextPc(i) == IF i < Len(PRIMARY_SYMBOLS) THEN "gate" ELSE "cycle_end"
NextIdx(i) == IF i < Len(PRIMARY_SYMBOLS) THEN i + 1 ELSE 0

(* the market gives no actionable signal once MaxOrders orders were sent *)
SignalChoices ==
    IF orders_sent < MaxOrders
    THEN [Timeframes -> AnalysisValues]
    ELSE [Timeframes -> {a \in AnalysisValues : a.signal = "HOLD"}]

(* a threshold of 3, the one get_market_analysis uses *)
Actionable_Low(fs) == fs.signal \in {"BUY", "SELL"} /\ fs.strength >= 3

(* final_signal["signal"] in ["BUY", "SELL"] and final_signal["strength"] >= 4 *)
Actionable(fs) == fs.signal \in {"BUY", "SELL"} /\ fs.strength >= 4

(* run_trading_cycle, one primary symbol: check_trading_conditions, the    *)
(* analysis of the three timeframes and _combine_signals                   *)
GateAndSignalIn(infos, choices) ==
    /\ pc = "gate"
    /\ \E info \in infos :
        LET symbol == PRIMARY_SYMBOLS[sym_idx]
            g == check_trading_conditions(bot, symbol, info, now)
        IN
        /\ bot' = g.bot
        /\ account_info' = info
        /\ status' = g.status
        /\ gate' = [symbol |-> symbol, ret |-> g.ret]
        /\ breach_seen' = (breach_seen \/ SawBreach(g.status))
        /\ target_seen' = (target_seen \/ SawTarget(g.status))
        /\ IF g.ret = "KeyError"
           THEN pc' = ExceptInCycle /\ sym_idx' = 0 /\ final_signal' = NoSignal
           ELSE IF g.ret = "False"
           THEN pc' = NextPc(sym_idx) /\ sym_idx' = NextIdx(sym_idx)
                /\ final_signal' = NoSignal
           ELSE \E signals \in choices :
                LET fs == _combine_signals(signals) IN
                IF Actionable(fs)
                THEN pc' = "place" /\ sym_idx' = sym_idx /\ final_signal' = fs
                ELSE pc' = NextPc(sym_idx) /\ sym_idx' = NextIdx(sym_idx)
                     /\ final_signal' = NoSignal
    /\ UNCHANGED <<managed_in, now, positions, orders_sent, request, minute_kind, sizing, cy,
                   signals_in, before,
                   bot_state_json, unsaved>>

(* one primary symbol with any snapshot and any signals of the market *)
GateAndSignal == GateAndSignalIn(AccountInfos, SignalChoices)


(* a placement that is counted but whose day is not recorded *)
RecordTrade_NoDay(b, ticket, symbol, trade_type, volume, today) ==
    [b EXCEPT !.total_trades = @ + 1,
              !.active_positions =
                  (ticket :> [symbol |-> symbol, type |-> trade_type,
                              volume |-> volume]) @@ @]

(* place_trade after TRADE_RETCODE_DONE: the ledger and the census *)
RecordTrade(b, ticket, symbol, trade_type, volume, today) ==
    [b EXCEPT !.total_trades = @ + 1,
              !.trading_days = @ \cup {today},
              !.active_positions =
                  (ticket :> [symbol |-> symbol, type |-> trade_type,
                              volume |-> volume]) @@ @]

(* FundedFridayTradingBot.place_trade: an exception is caught and          *)
(* place_trade returns False. sized tells whether calculate_position_size  *)
(* was called, sent whether mt5.order_send received the request, ret what  *)
(* place_trade returns                                                     *)
place_trade(b, symbol, trade_type, analysis, info, tick, symbol_info, result, ticket, t) ==
    LET g == check_trading_conditions(b, symbol, info, t)
        entry_price == IF trade_type = "BUY" THEN tick.ask ELSE tick.bid
        atr == Atr(analysis)
        stop_loss == IF trade_type = "BUY" THEN entry_price - atr * 2
                     ELSE entry_price + atr * 2
        take_profit == IF trade_type = "BUY" THEN entry_price + atr * 3
                       ELSE entry_price - atr * 3
        position_size == calculate_position_size(g.bot, symbol, entry_price,
                                                 stop_loss, symbol_info)
        sized == g.ret = "True" /\ ~tick.none
        sent == sized /\ position_size # 0
        done == sent /\ result = "done"
    IN  [bot |-> IF done
                 THEN RecordTrade(g.bot, ticket, symbol, trade_type, position_size,
                                  t.day)
                 ELSE g.bot,
         status |-> g.status,
         gate_ret |-> g.ret,
         sized |-> sized,
         sizing |-> [symbol |-> symbol, entry_price |-> entry_price,
                     stop_loss |-> stop_loss, symbol_info |-> symbol_info,
                     risk_amount |-> IF symbol_info.none THEN 0
                                     ELSE risk_amount(g.bot),
                     volume |-> position_size],
         sent |-> sent,
         request |-> TradeRequest(symbol, trade_type, position_size, entry_price,
                                  stop_loss, take_profit),
         ret |-> done]

(* the position the broker opens for an accepted order *)
Opened(pos, ticket, symbol, t) ==
    (ticket :> [symbol |-> symbol, magic |-> BOT_MAGIC, time |-> t]) @@ pos

(* run_trading_cycle calls place_trade for an actionable signal *)
PlaceTradeIn(infos) ==
    /\ pc = "place"
    /\ LET symbol == PRIMARY_SYMBOLS[sym_idx]
           ticket == orders_sent + 1
       IN
       \E info \in infos, tick \in Ticks,
          symbol_info \in SymbolInfos(symbol), result \in OrderResults :
        LET r == place_trade(bot, symbol, final_signal.signal, final_signal, info,
                             tick, symbol_info, result, ticket, now)
        IN
        /\ bot' = r.bot
        /\ account_info' = info
        /\ status' = r.status
        /\ gate' = [symbol |-> symbol, ret |-> r.gate_ret]
        /\ breach_seen' = (breach_seen \/ SawBreach(r.status))
        /\ target_seen' = (target_seen \/ SawTarget(r.status))
        /\ orders_sent' = IF r.sent THEN orders_sent + 1 ELSE orders_sent
        /\ request' = IF r.sent THEN r.request ELSE request
        /\ positions' = IF r.ret THEN Opened(positions, ticket, symbol, now)
                        ELSE positions
    /\ pc' = NextPc(sym_idx)
    /\ sym_idx' = NextIdx(sym_idx)
    /\ final_signal' = NoSignal
    /\ UNCHANGED <<managed_in, now, minute_kind, sizing, cy,
                   signals_in, before,
                   bot_state_json, unsaved>>

(* a placement with any snapshot of the main loop *)
PlaceTrade == PlaceTradeIn(AccountInfos)

(* run_trading_cycle has returned to the main loop *)
CycleEnd ==
    /\ pc = "cycle_end"
    /\ pc' = IF minute_kind = "hour" THEN "save" ELSE "check"
    /\ UNCHANGED <<managed_in, bot, now, positions, orders_sent, request, minute_kind, sym_idx,
                   final_signal, account_info, status, sizing, gate, cy, breach_seen,
                   target_seen,
                   signals_in, before,
                   bot_state_json, unsaved>>

(* the hourly save_state of the main loop; the loop never reads           *)
(* bot_state.json, so here the save is followed through unsaved alone and  *)
(* what save_state writes is followed where load_state reads it            *)
SaveState ==
    /\ pc = "save"
    /\ pc' = "check"
    /\ unsaved' = FALSE
    /\ UNCHANGED <<managed_in, bot, now, positions, orders_sent, request, minute_kind, sym_idx,
                   final_signal, account_info, status, sizing, gate, cy, breach_seen,
                   target_seen, signals_in, before, bot_state_json>>

(* the five-minute check_account_status of the main loop: indexing the     *)
(* error dict raises, which the loop's except clause catches               *)
StatusCheckIn(infos) ==
    /\ pc = "check"
    /\ \E info \in infos :
        LET r == check_account_status(bot, info)
            stop == r.status.status = "ok"
                    /\ (r.status.target_reached \/ r.status.breaches # {})
        IN
        /\ account_info' = info
        /\ status' = r.status
        /\ breach_seen' = (breach_seen \/ SawBreach(r.status))
        /\ target_seen' = (target_seen \/ SawTarget(r.status))
        /\ bot' = IF stop THEN [r.bot EXCEPT !.is_trading_enabled = FALSE] ELSE r.bot
        /\ pc' = IF stop THEN "cleanup" ELSE "loop"
    /\ minute_kind' = "idle"
    /\ UNCHANGED <<managed_in, now, positions, orders_sent, request, sym_idx, final_signal,
                   sizing, gate, cy,
                   signals_in, before,
                   bot_state_json, unsaved>>

(* the status check with any snapshot of the main loop *)
StatusCheck == StatusCheckIn(AccountInfos)

(* the end of start_bot: save_state and mt5.shutdown *)
Cleanup ==
    /\ pc = "cleanup"
    /\ pc' = "stopped"
    /\ unsaved' = FALSE
    /\ UNCHANGED <<managed_in, bot, now, positions, orders_sent, request, minute_kind, sym_idx,
                   final_signal, account_info, status, sizing, gate, cy, breach_seen,
                   target_seen, signals_in, before, bot_state_json>>

(* the broker closes a position by its stop-loss or take-profit *)
BrokerClose ==
    /\ pc = "loop"
    /\ \E ticket \in DOMAIN positions : positions' = Without(positions, ticket)
    /\ UNCHANGED <<managed_in, bot, now, orders_sent, request, pc, minute_kind, sym_idx,
                   final_signal, account_info, status, sizing, gate, cy, breach_seen,
                   target_seen,
                   signals_in, before,
                   bot_state_json, unsaved>>

Next ==
    \/ LoopIter
    \/ CycleRefresh
    \/ ManagePositions
    \/ GateAndSignal
    \/ PlaceTrade
    \/ CycleEnd
    \/ SaveState
    \/ StatusCheck
    \/ Cleanup
    \/ BrokerClose

Spec == Init /\ [][Next]_vars


---------------------------------------------------------------------------
(* The risk state alone: any sequence of check_account_status and          *)
(* daily_reset, over more of the values a snapshot can carry               *)

MaxResets == 2

RiskAccountInfos ==
    {NoAccountInfo}
    \cup {AccountInfo(e, b) : e \in {-50, 9200, 9400, 9401, 9600, 9700, 10000, 10500, 11000},
                             b \in {-10, ACCOUNT_BALANCE}}

RiskInit ==
    /\ bot \in {NewBot(ACCOUNT_BALANCE, c) : c \in {"ONE_STEP", "TWO_STEP"}}
    /\ pc = "constructed"
    /\ Constructed

RiskPcs == {"constructed", "refreshed", "reset"}

RiskRefresh ==
    /\ pc \in RiskPcs
    /\ \E info \in RiskAccountInfos :
        LET r == check_account_status(bot, info) IN
        /\ bot' = r.bot
        /\ account_info' = info
        /\ status' = r.status
    /\ pc' = "refreshed"
    /\ UNCHANGED <<managed_in, now, positions, orders_sent, request, minute_kind, sym_idx,
                   final_signal, sizing, gate, cy, breach_seen, target_seen,
                   signals_in, before,
                   bot_state_json, unsaved>>

RiskDailyReset ==
    /\ pc \in RiskPcs
    /\ now.day < MaxResets
    /\ bot' = daily_reset(bot)
    /\ now' = [now EXCEPT !.day = @ + 1]
    /\ pc' = "reset"
    /\ UNCHANGED <<managed_in, positions, orders_sent, request, minute_kind, sym_idx, final_signal,
                   account_info, status, sizing, gate, cy, breach_seen, target_seen,
                   signals_in, before,
                   bot_state_json, unsaved>>

RiskNext == RiskRefresh \/ RiskDailyReset

SpecRisk == RiskInit /\ [][RiskNext]_vars

---------------------------------------------------------------------------
(* The trade gate alone: check_trading_conditions called on a bot with any *)
(* census the caps allow, enabled or not, on any day                       *)

(* a census of n_gold XAUUSD and n_silver XAGUSD positions *)
Census(n_gold, n_silver) ==
    [t \in 1..(n_gold + n_silver) |->
        [symbol |-> IF t <= n_gold THEN "XAUUSD" ELSE "XAGUSD",
         type |-> "BUY", volume |-> 1]]

Censuses ==
    {Census(n[1], n[2]) :
        n \in {m \in (0..MAX_TRADES_PER_SYMBOL) \X (0..MAX_TRADES_PER_SYMBOL) :
                 m[1] + m[2] <= MAX_CONCURRENT_TRADES}}

GateInit ==
    /\ \E c \in ChallengeTypes, census \in Censuses, enabled \in BOOLEAN :
        bot = [NewBot(ACCOUNT_BALANCE, c) EXCEPT !.active_positions = census,
                                                 !.is_trading_enabled = enabled]
    /\ pc = "gate_call"
    /\ \E t \in Times :
        /\ now = t
        /\ positions = [x \in {} |-> [symbol |-> "", magic |-> 0, time |-> t]]
    /\ orders_sent = 0
    /\ request = NoRequest
    /\ minute_kind = "idle"
    /\ sym_idx = 0
    /\ final_signal = NoSignal
    /\ account_info = NoAccountInfo
    /\ status = NoStatus
    /\ sizing = NoSizing
    /\ gate = NoGate
    /\ cy = NewCycle
    /\ breach_seen = FALSE
    /\ target_seen = FALSE
    /\ signals_in = NoSignals
    /\ before = bot
    /\ bot_state_json = NoFile
    /\ unsaved = FALSE
    /\ managed_in = NoPass

GateCall ==
    /\ pc = "gate_call"
    /\ \E symbol \in {"XAUUSD", "XAGUSD"}, info \in AccountInfos :
        LET g == check_trading_conditions(bot, symbol, info, now) IN
        /\ bot' = g.bot
        /\ account_info' = info
        /\ status' = g.status
        /\ gate' = [symbol |-> symbol, ret |-> g.ret]
    /\ UNCHANGED <<managed_in, now, positions, orders_sent, request, pc, minute_kind, sym_idx,
                   final_signal, sizing, cy, breach_seen, target_seen,
                   signals_in, before,
                   bot_state_json, unsaved>>

SpecGate == GateInit /\ [][GateCall]_vars

---------------------------------------------------------------------------
(* Position sizing alone: calculate_position_size called on a bot of any   *)
(* equity and streak, for any symbol, prices and symbol_info               *)

SizerSymbols == {"XAUUSD", "XAGUSD", "EURUSD", "USDJPY"}
SizerPrices == {1100, 2000}
SizerDistances == {-200, -2, 0, 20}

(* mt5.symbol_info(symbol): None, or a profile whose volume_min is a whole *)
(* number of volume_steps (a volume_step of 0 is a malformed profile)      *)
SizerInfos ==
    {NoSymbolInfo}
    \cup {i \in [none : {FALSE}, point : {0, 1, 10},
                  trade_contract_size : {100, 1000},
                  volume_min : {1, 3, 10}, volume_step : {0, 1, 3, 10}] :
            i.volume_step = 0 \/ i.volume_min % i.volume_step = 0}

SizerInit ==
    /\ \E c \in ChallengeTypes, equity \in {100, 10000}, losses \in {0, 1, 3},
          trades \in {0, 10, 11} :
        bot = [NewBot(ACCOUNT_BALANCE, c) EXCEPT !.current_equity = equity,
                                                 !.consecutive_losses = losses,
                                                 !.total_trades = trades]
    /\ pc = "size_call"
    /\ Constructed

SizeCall ==
    /\ pc = "size_call"
    /\ \E symbol \in SizerSymbols, entry_price \in SizerPrices,
          distance \in SizerDistances, symbol_info \in SizerInfos :
        sizing' = [symbol |-> symbol, entry_price |-> entry_price,
                   stop_loss |-> entry_price + distance, symbol_info |-> symbol_info,
                   risk_amount |-> IF symbol_info.none THEN 0 ELSE risk_amount(bot),
                   volume |-> calculate_position_size(bot, symbol, entry_price,
                                                      entry_price + distance,
                                                      symbol_info)]
    /\ pc' = "sized"
    /\ UNCHANGED <<managed_in, bot, now, positions, orders_sent, request, minute_kind, sym_idx,
                   final_signal, account_info, status, gate, cy, breach_seen,
                   target_seen,
                   signals_in, before,
                   bot_state_json, unsaved>>

SpecSizer == SizerInit /\ [][SizeCall]_vars


---------------------------------------------------------------------------
(* Signal combination alone: _combine_signals called on any signal and     *)
(* strength for each of the three timeframes                               *)

MaxStrength == 3

CombineInputs ==
    [Timeframes -> [signal : {"BUY", "SELL", "HOLD"}, strength : 0..MaxStrength]]

CombineInit ==
    /\ bot \in {NewBot(ACCOUNT_BALANCE, c) : c \in ChallengeTypes}
    /\ pc = "combine"
    /\ now = [day |-> 0, hour |-> 12]
    /\ positions = [t \in {} |-> [symbol |-> "", magic |-> 0, time |-> now]]
    /\ orders_sent = 0
    /\ request = NoRequest
    /\ minute_kind = "idle"
    /\ sym_idx = 0
    /\ final_signal = NoSignal
    /\ account_info = NoAccountInfo
    /\ status = NoStatus
    /\ sizing = NoSizing
    /\ gate = NoGate
    /\ cy = NewCycle
    /\ breach_seen = FALSE
    /\ target_seen = FALSE
    /\ signals_in \in CombineInputs
    /\ before = bot
    /\ bot_state_json = NoFile
    /\ unsaved = FALSE
    /\ managed_in = NoPass

CombineCall ==
    /\ pc = "combine"
    /\ final_signal' = _combine_signals(signals_in)
    /\ pc' = "combined"
    /\ UNCHANGED <<managed_in, bot, now, positions, orders_sent, request, minute_kind, sym_idx,
                   account_info, status, sizing, gate, cy, breach_seen, target_seen,
                   signals_in, before,
                   bot_state_json, unsaved>>

SpecCombine == CombineInit /\ [][CombineCall]_vars

---------------------------------------------------------------------------
(* The ledger alone: any sequence of place_trade, close_position,          *)
(* check_account_status and the daily_reset of each new day                *)

MaxLedgerDays == 2
MaxLedgerOrders == 2

LedgerAccountInfos ==
    {NoAccountInfo} \cup {AccountInfo(e, ACCOUNT_BALANCE) : e \in {10000, 10300}}

(* pos.profit of a position that is closed: a loss, nothing, 0.1% of      *)
(* 10000, a gain                                                          *)
LedgerProfits == {-100, 0, 10, 300}

LedgerPcs == {"ledger", "refreshed", "placed", "closed", "reset", "reset_twice"}

LedgerInit ==
    /\ bot \in {NewBot(ACCOUNT_BALANCE, c) : c \in ChallengeTypes}
    /\ pc = "ledger"
    /\ Constructed

LedgerRefresh ==
    /\ pc \in LedgerPcs
    /\ \E info \in LedgerAccountInfos :
        LET r == check_account_status(bot, info) IN
        /\ bot' = r.bot
        /\ account_info' = info
        /\ status' = r.status
    /\ before' = bot
    /\ pc' = "refreshed"
    /\ UNCHANGED <<managed_in, now, positions, orders_sent, request, minute_kind, sym_idx,
                   final_signal, sizing, gate, cy, breach_seen, target_seen,
                   signals_in,
                   bot_state_json, unsaved>>

LedgerPlace ==
    /\ pc \in LedgerPcs
    /\ orders_sent < MaxLedgerOrders
    /\ \E symbol \in {"XAUUSD"}, info \in LedgerAccountInfos, tick \in Ticks,
          result \in {"done", "rejected"} :
        LET ticket == orders_sent + 1
            r == place_trade(bot, symbol, "BUY", [signal |-> "BUY", strength |-> 9],
                             info, tick, CHOOSE i \in SymbolInfos(symbol) : ~i.none,
                             result, ticket, now)
        IN
        /\ bot' = r.bot
        /\ account_info' = info
        /\ status' = r.status
        /\ gate' = [symbol |-> symbol, ret |-> r.gate_ret]
        /\ orders_sent' = IF r.sent THEN orders_sent + 1 ELSE orders_sent
        /\ request' = IF r.sent THEN r.request ELSE request
        /\ positions' = IF r.ret THEN Opened(positions, ticket, symbol, now)
                        ELSE positions
    /\ before' = bot
    /\ pc' = "placed"
    /\ UNCHANGED <<managed_in, now, minute_kind, sym_idx, final_signal, sizing, cy, breach_seen,
                   target_seen, signals_in,
                   bot_state_json, unsaved>>

LedgerClose ==
    /\ pc \in LedgerPcs
    /\ \E ticket \in DOMAIN positions, outcome \in {"done", "rejected", "raise"},
          profit \in LedgerProfits :
        LET r == close_position(bot, positions, ticket, outcome, profit) IN
        /\ bot' = r.bot
        /\ positions' = r.positions
    /\ before' = bot
    /\ pc' = "closed"
    /\ UNCHANGED <<managed_in, now, orders_sent, request, minute_kind, sym_idx, final_signal,
                   account_info, status, sizing, gate, cy, breach_seen, target_seen,
                   signals_in,
                   bot_state_json, unsaved>>

(* schedule.every().day.at("00:01").do(self.daily_reset) *)
LedgerReset ==
    /\ pc \in LedgerPcs
    /\ now.day < MaxLedgerDays
    /\ now' = [now EXCEPT !.day = @ + 1]
    /\ bot' = daily_reset(bot)
    /\ before' = bot
    /\ pc' = "reset"
    /\ UNCHANGED <<managed_in, positions, orders_sent, request, minute_kind, sym_idx, final_signal,
                   account_info, status, sizing, gate, cy, breach_seen, target_seen,
                   signals_in,
                   bot_state_json, unsaved>>

LedgerNext == LedgerRefresh \/ LedgerPlace \/ LedgerClose \/ LedgerReset

SpecLedger == LedgerInit /\ [][LedgerNext]_vars

(* daily_reset called again right after the reset of the day *)
LedgerResetAgain ==
    /\ pc = "reset"
    /\ bot' = daily_reset(bot)
    /\ pc' = "reset_twice"
    /\ UNCHANGED <<managed_in, now, positions, orders_sent, request, minute_kind, sym_idx,
                   final_signal, account_info, status, sizing, gate, cy, breach_seen,
                   target_seen, signals_in, before,
                   bot_state_json, unsaved>>

SpecReset == LedgerInit /\ [][LedgerNext \/ LedgerResetAgain]_vars

---------------------------------------------------------------------------
(* Order placement alone: place_trade called once on a bot with any census *)
(* the caps allow, with any answer of the broker, also a malformed profile *)

(* mt5.symbol_info(symbol): also a profile without a volume_step or        *)
(* without a point                                                         *)
PlaceSymbolInfos(symbol) ==
    SymbolInfos(symbol)
    \cup {[none |-> FALSE, point |-> 10, trade_contract_size |-> 100,
           volume_min |-> 1, volume_step |-> 0],
          [none |-> FALSE, point |-> 0, trade_contract_size |-> 100,
           volume_min |-> 1, volume_step |-> 1]}

PlaceInit ==
    /\ \E c \in ChallengeTypes, census \in Censuses :
        bot = [NewBot(ACCOUNT_BALANCE, c) EXCEPT !.active_positions = census]
    /\ pc = "place_call"
    /\ \E t \in Times :
        /\ now = t
        /\ positions = [x \in {} |-> [symbol |-> "", magic |-> 0, time |-> t]]
    /\ orders_sent = 0
    /\ request = NoRequest
    /\ minute_kind = "idle"
    /\ sym_idx = 0
    /\ final_signal = NoSignal
    /\ account_info = NoAccountInfo
    /\ status = NoStatus
    /\ sizing = NoSizing
    /\ gate = NoGate
    /\ cy = NewCycle
    /\ breach_seen = FALSE
    /\ target_seen = FALSE
    /\ signals_in = NoSignals
    /\ before = bot
    /\ bot_state_json = NoFile
    /\ unsaved = FALSE
    /\ managed_in = NoPass

PlaceCall ==
    /\ pc = "place_call"
    /\ \E symbol \in {"XAUUSD", "XAGUSD"}, trade_type \in {"BUY", "SELL"},
          info \in AccountInfos, tick \in Ticks, result \in OrderResults :
       \E symbol_info \in PlaceSymbolInfos(symbol) :
        LET ticket == Cardinality(DOMAIN bot.active_positions) + 1
            r == place_trade(bot, symbol, trade_type,
                             [signal |-> trade_type, strength |-> 9], info, tick,
                             symbol_info, result, ticket, now)
        IN
        /\ bot' = r.bot
        /\ account_info' = info
        /\ status' = r.status
        /\ gate' = [symbol |-> symbol, ret |-> r.gate_ret]
        /\ sizing' = IF r.sized THEN r.sizing ELSE sizing
        /\ orders_sent' = IF r.sent THEN orders_sent + 1 ELSE orders_sent
        /\ request' = IF r.sent THEN r.request ELSE request
        /\ positions' = IF r.ret THEN Opened(positions, ticket, symbol, now)
                        ELSE positions
    /\ pc' = "place_done"
    /\ UNCHANGED <<managed_in, now, minute_kind, sym_idx, final_signal, cy, breach_seen,
                   target_seen, signals_in, before,
                   bot_state_json, unsaved>>

SpecPlace == PlaceInit /\ [][PlaceCall]_vars

---------------------------------------------------------------------------
(* The claims *)

BreachKinds ==
    {"Maximum Drawdown", "Trailing Drawdown", "Daily Drawdown", "Trailing Daily Drawdown"}

(* C1: after every successful refresh the returned breach list holds each  *)
(* of the four kinds exactly when its drawdown, measured on the fields as  *)
(* the refresh left them, is at least its limit (a tie is a breach); the   *)
(* list depends on nothing else.                                           *)
C1_BreachSet ==
    (pc = "refreshed" /\ status.status = "ok") =>
        LET r == ChallengeRules(bot.challenge_type)
            eq == bot.current_equity
        IN
        /\ status.breaches \subseteq BreachKinds
        /\ ("Maximum Drawdown" \in status.breaches)
            <=> ((bot.initial_balance - eq) * 100
                    >= bot.initial_balance * r.max_drawdown)
        /\ ("Trailing Drawdown" \in status.breaches)
            <=> ((bot.all_time_high_equity - eq) * 100
                    >= bot.all_time_high_equity * r.trailing_drawdown)
        /\ ("Daily Drawdown" \in status.breaches)
            <=> ((bot.daily_start_balance - eq) * 100
                    >= bot.daily_start_balance * r.daily_drawdown)
        /\ ("Trailing Daily Drawdown" \in status.breaches)
            <=> ((bot.daily_high_equity - eq) * 100
                    >= bot.daily_high_equity * r.trailing_daily_drawdown)

(* the tie of the example: 10000 - 9400 = 600 = 6% of 10000 *)
C1_Witness ==
    /\ pc = "refreshed"
    /\ status.status = "ok"
    /\ bot.initial_balance = 10000
    /\ bot.current_equity = 9400
    /\ "Maximum Drawdown" \in status.breaches

(* C2: once a refresh of the run has returned a non-empty breach list, no  *)
(* further order is sent, in that cycle or in a later one.                 *)
C2_BreachTerminal == [][breach_seen' => orders_sent' = orders_sent]_vars

(* C3: target_reached is (equity - initial) / initial >= profit_target,    *)
(* and once a refresh of the run has returned it true no further order is  *)
(* sent.                                                                   *)
C3_TargetTerminal ==
    /\ [](status.status = "ok" =>
            (status.target_reached
                <=> ((bot.current_equity - bot.initial_balance) * 100
                        >= bot.initial_balance
                            * ChallengeRules(bot.challenge_type).profit_target)))
    /\ [][target_seen' => orders_sent' = orders_sent]_vars

(* C4: a cycle that is halted (its refresh reports a breach or the target, *)
(* or trading is disabled) still runs the position-management pass over    *)
(* the open positions.                                                     *)
C4_HaltedCycleManages ==
    (pc = "cycle_end" /\ cy.halted /\ DOMAIN positions # {}) => cy.managed

(* C5: the gate returns True exactly when none of these holds: the breach  *)
(* list is non-empty or trading is disabled; the day is a Saturday or a    *)
(* Sunday; the symbol has max_trades_per_symbol open positions; the census *)
(* has max_concurrent_trades positions. A non-empty breach list always     *)
(* gives False. Without a snapshot there is no breach list, and the gate   *)
(* raises instead of returning.                                            *)
C5_GateDecision ==
    gate.ret # "none" =>
        LET on_symbol == {t \in DOMAIN bot.active_positions :
                            bot.active_positions[t].symbol = gate.symbol}
            denied == \/ status.breaches # {}
                      \/ ~bot.is_trading_enabled
                      \/ Weekday(now) \in {5, 6}
                      \/ Cardinality(on_symbol) >= MAX_TRADES_PER_SYMBOL
                      \/ Cardinality(DOMAIN bot.active_positions)
                            >= MAX_CONCURRENT_TRADES
        IN
        /\ status.status = "ok" => (gate.ret = IF denied THEN "False" ELSE "True")
        /\ status.status # "ok" => gate.ret = "KeyError"
        /\ status.breaches # {} => gate.ret = "False"

(* the gate opens with four positions in the census, two on the symbol *)
C5_Witness ==
    /\ gate.ret = "True"
    /\ gate.symbol = "XAUUSD"
    /\ Cardinality(DOMAIN bot.active_positions) = 4
    /\ Cardinality({t \in DOMAIN bot.active_positions :
                        bot.active_positions[t].symbol = "XAUUSD"}) = 2

(* C6: a call of the gate leaves the risk state, the ledger and the census *)
(* as they were.                                                           *)
C6_GatePure ==
    [][pc = "gate" =>
        /\ bot'.current_equity = bot.current_equity
        /\ bot'.account_balance = bot.account_balance
        /\ bot'.all_time_high_equity = bot.all_time_high_equity
        /\ bot'.daily_high_equity = bot.daily_high_equity
        /\ bot'.daily_start_balance = bot.daily_start_balance
        /\ bot' = bot
        /\ positions' = positions]_vars

(* C7: every refresh of a snapshot with non-negative equity and balance   *)
(* sets daily_high_equity to the larger of its previous value and the      *)
(* equity of the snapshot, so that daily_high_equity is at least every     *)
(* equity seen since the last daily_reset.                                 *)
C7_DailyHigh ==
    [][(pc' = "refreshed" /\ status'.status = "ok"
            /\ account_info'.equity >= 0 /\ account_info'.balance >= 0) =>
        bot'.daily_high_equity
            = IF account_info'.equity > bot.daily_high_equity
              THEN account_info'.equity ELSE bot.daily_high_equity]_vars

(* C8: all_time_high_equity never decreases, is at least the equity of     *)
(* every snapshot a refresh has stored, and is left alone by daily_reset.  *)
C8_HighWaterMark ==
    /\ [](~account_info.none => bot.all_time_high_equity >= account_info.equity)
    /\ [](bot.all_time_high_equity >= bot.current_equity)
    /\ [][bot'.all_time_high_equity >= bot.all_time_high_equity]_vars
    /\ [][now'.day > now.day =>
            bot'.all_time_high_equity = bot.all_time_high_equity]_vars

(* a peak, a daily reset, and a refresh below the peak *)
C8_Witness ==
    /\ now.day >= 1
    /\ ~account_info.none
    /\ bot.all_time_high_equity = 11000
    /\ bot.current_equity = 9400
    /\ bot.daily_start_balance = 11000

RiskState(b) ==
    <<b.current_equity, b.account_balance, b.all_time_high_equity,
      b.daily_high_equity, b.daily_start_balance>>

(* C9: a refresh whose snapshot has a negative equity or a negative        *)
(* balance fails with an error outcome and leaves the risk state as it was.*)
C9_InvalidSnapshot ==
    [][(pc' = "refreshed" /\ ~account_info'.none
            /\ (account_info'.equity < 0 \/ account_info'.balance < 0)) =>
        (status'.status = "error" /\ RiskState(bot') = RiskState(bot))]_vars

(* a profile calculate_position_size computes a size from *)
ValidProfile(symbol_info) ==
    /\ ~symbol_info.none
    /\ symbol_info.point > 0
    /\ symbol_info.trade_contract_size > 0
    /\ symbol_info.volume_min > 0
    /\ symbol_info.volume_step > 0

SizedCase ==
    /\ pc = "sized"
    /\ ValidProfile(sizing.symbol_info)
    /\ bot.current_equity > 0
    /\ sizing.entry_price # sizing.stop_loss

SizedClassMax ==
    IF sizing.symbol = "XAUUSD" THEN 500
    ELSE IF sizing.symbol = "XAGUSD" THEN 1000 ELSE 200

SizedInRange ==
    /\ sizing.volume >= sizing.symbol_info.volume_min
    /\ sizing.volume <= SizedClassMax
    /\ sizing.volume % sizing.symbol_info.volume_step = 0

(* C10: for every valid profile, positive risk amount and non-zero risk    *)
(* distance the volume lies in [volume_min, classMax] (5 lots for XAUUSD,  *)
(* 10 for XAGUSD, 2 otherwise) and is an integer multiple of volume_step.  *)
C10_VolumeRange == SizedCase => SizedInRange

(* C11: calculate_position_size returns 0 only when the profile is         *)
(* unavailable or malformed; on a valid profile it never returns 0, also   *)
(* not when entry_price equals stop_loss.                                  *)
C11_ZeroOnlyMalformed ==
    (pc = "sized" /\ sizing.volume = 0) => ~ValidProfile(sizing.symbol_info)

(* C13: the risk amount of a sizing call is equity * base_risk_per_trade   *)
(* times exactly one factor: 0.5 when consecutive_losses >= 3, 1.2 when    *)
(* consecutive_losses = 0 and total_trades > 10, and 1 otherwise.          *)
C13_RiskAmount ==
    (pc = "sized" /\ ~sizing.symbol_info.none) =>
        LET factor == IF bot.consecutive_losses >= 3 THEN 5
                      ELSE IF bot.consecutive_losses = 0 /\ bot.total_trades > 10
                      THEN 12 ELSE 10
            base == bot.current_equity * BASE_RISK_PER_TRADE
        IN  /\ sizing.risk_amount = base * factor
            /\ sizing.risk_amount \in {base * 5, base * 10, base * 12}

(* a losing streak on a bot with more than ten trades: the factor is 0.5 *)
C13_Witness ==
    /\ pc = "sized"
    /\ ~sizing.symbol_info.none
    /\ bot.consecutive_losses = 3
    /\ bot.total_trades = 11
    /\ bot.current_equity = 10000
    /\ sizing.risk_amount = 50000

(* the score _combine_signals accumulates for a direction, with the        *)
(* weights 3, 2 and 1 of H4, H1 and M15                                    *)
Score(direction) ==
    (IF signals_in["H4"].signal = direction THEN signals_in["H4"].strength * 3 ELSE 0)
    + (IF signals_in["H1"].signal = direction THEN signals_in["H1"].strength * 2 ELSE 0)
    + (IF signals_in["M15"].signal = direction THEN signals_in["M15"].strength ELSE 0)

(* C14: _combine_signals returns a direction with the highest accumulated  *)
(* score, with that score as its strength, the scores being the sums of    *)
(* strength * weight with weights H4 3, H1 2, M15 1; H4 BUY 3, H1 BUY 2,   *)
(* M15 SELL 1 gives BUY with strength 13.                                  *)
C14_CombinedScore ==
    pc = "combined" =>
        /\ final_signal.signal \in {"BUY", "SELL", "HOLD"}
        /\ final_signal.strength = Score(final_signal.signal)
        /\ \A d \in {"BUY", "SELL", "HOLD"} : Score(d) <= final_signal.strength
        /\ (/\ signals_in["H4"] = [signal |-> "BUY", strength |-> 3]
            /\ signals_in["H1"] = [signal |-> "BUY", strength |-> 2]
            /\ signals_in["M15"] = [signal |-> "SELL", strength |-> 1])
            => final_signal = [signal |-> "BUY", strength |-> 13]

(* the example of the claim *)
C14_Witness ==
    /\ pc = "combined"
    /\ signals_in["H4"] = [signal |-> "BUY", strength |-> 3]
    /\ signals_in["H1"] = [signal |-> "BUY", strength |-> 2]
    /\ signals_in["M15"] = [signal |-> "SELL", strength |-> 1]
    /\ final_signal = [signal |-> "BUY", strength |-> 13]

(* C15: when the BUY and SELL scores are equal and higher than the HOLD    *)
(* score, _combine_signals returns HOLD.                                   *)
C15_TieIsHold ==
    (pc = "combined" /\ Score("BUY") = Score("SELL")
        /\ Score("BUY") > Score("HOLD")) => final_signal.signal = "HOLD"

(* C12: an order is sent only with a volume that the sizing computed       *)
(* without error: never when the profile is malformed, the risk distance   *)
(* is zero or the computation raised.                                      *)
C12_NoOrderWithoutSize ==
    (pc = "place_done" /\ orders_sent > 0) =>
        /\ ValidProfile(sizing.symbol_info)
        /\ sizing.entry_price # sizing.stop_loss
        /\ request.volume = sizing.volume

(* C16: an order is attempted for a symbol only if the combined decision   *)
(* for it is BUY or SELL with strength >= 4, and the order has that        *)
(* direction.                                                              *)
C16_OnlyActionable ==
    /\ [](pc = "place" =>
            final_signal.signal \in {"BUY", "SELL"} /\ final_signal.strength >= 4)
    /\ [][orders_sent' > orders_sent =>
            /\ pc = "place"
            /\ final_signal.signal \in {"BUY", "SELL"}
            /\ final_signal.strength >= 4
            /\ request'.type = final_signal.signal
            /\ request'.symbol = PRIMARY_SYMBOLS[sym_idx]]_vars

(* an order was sent for a SELL decision *)
C16_Witness ==
    /\ orders_sent = 1
    /\ request.type = "SELL"
    /\ request.symbol = "XAGUSD"

(* C20: place_trade increments total_trades, adds the day to trading_days  *)
(* and adds the new position to the census exactly when the broker has     *)
(* accepted the order; in every other case the three are unchanged.        *)
C20_PlaceTradeLedger ==
    [][pc = "place" =>
        LET opened == DOMAIN positions' \ DOMAIN positions IN
        IF opened # {}
        THEN /\ bot'.total_trades = bot.total_trades + 1
             /\ bot'.trading_days = bot.trading_days \cup {now.day}
             /\ DOMAIN bot'.active_positions = DOMAIN bot.active_positions \cup opened
             /\ \A t \in DOMAIN bot.active_positions \ opened :
                    bot'.active_positions[t] = bot.active_positions[t]
             /\ \A t \in opened :
                    /\ bot'.active_positions[t].symbol = request'.symbol
                    /\ bot'.active_positions[t].type = request'.type
                    /\ bot'.active_positions[t].volume = request'.volume
        ELSE /\ bot'.total_trades = bot.total_trades
             /\ bot'.trading_days = bot.trading_days
             /\ bot'.active_positions = bot.active_positions]_vars

(* the broker has accepted an order of place_trade *)
C20_Witness ==
    /\ pc \in {"gate", "cycle_end"}
    /\ orders_sent = 1
    /\ 1 \in DOMAIN positions
    /\ bot.total_trades = 1
    /\ bot.trading_days = {now.day}
    /\ 1 \in DOMAIN bot.active_positions

(* C17: daily_reset adds one to profitable_days when daily_profit is at    *)
(* least 0.1% of current_equity and nothing otherwise, sets                *)
(* daily_start_balance and daily_high_equity to current_equity and         *)
(* daily_profit to 0, and changes no other field.                          *)
C17_DailyReset ==
    [][now'.day > now.day =>
        bot' = [bot EXCEPT
                  !.profitable_days =
                      IF bot.daily_profit * 1000 >= bot.current_equity
                      THEN @ + 1 ELSE @,
                  !.daily_start_balance = bot.current_equity,
                  !.daily_high_equity = bot.current_equity,
                  !.daily_profit = 0]]_vars

(* a day whose profit is exactly 0.1% of the equity has been counted *)
C17_Witness ==
    /\ pc = "reset"
    /\ before.daily_profit = 10
    /\ before.current_equity = 10000
    /\ bot.profitable_days = before.profitable_days + 1
    /\ bot.daily_profit = 0

(* the day qualified when daily_reset was called for the first time *)
ResetTwiceOnQualifyingDay ==
    /\ pc = "reset_twice"
    /\ before.daily_profit * 1000 >= before.current_equity

(* C18 as stated: two calls of daily_reset in a row on a qualifying day    *)
(* leave profitable_days two higher than before the first call.            *)
C18_CountedTwice ==
    ResetTwiceOnQualifyingDay => bot.profitable_days = before.profitable_days + 2

(* C18 as amended: with a positive current_equity, two calls of            *)
(* daily_reset in a row on a qualifying day leave profitable_days one      *)
(* higher than before the first call: the second call counts nothing.      *)
C18_CountedOnce ==
    (ResetTwiceOnQualifyingDay /\ before.current_equity > 0) =>
        bot.profitable_days = before.profitable_days + 1

(* a day with a profit of 300 was reset twice *)
C18_Witness ==
    /\ ResetTwiceOnQualifyingDay
    /\ before.current_equity > 0
    /\ before.daily_profit = 300
    /\ bot.profitable_days = before.profitable_days + 1

(* C19: in every reachable state profitable_days is at most the number of  *)
(* trading_days.                                                           *)
C19_ProfitableWithinTrading ==
    bot.profitable_days <= Cardinality(bot.trading_days)

---------------------------------------------------------------------------
(* The management pass alone: manage_positions called once on the open     *)
(* positions of the account, the bot's and others                          *)

(* position.profit as the pass sees it: a loss, 2% of 10000, more *)
ManageProfits == {-100, 200, 300}

(* two open positions, opened by the bot or by another expert, at or       *)
(* before the time of the pass                                             *)
ManagePositionSets ==
    [1..2 -> [symbol : {"XAUUSD"}, magic : {BOT_MAGIC, 0}, time : Times]]

ManageInit ==
    /\ bot \in {[NewBot(ACCOUNT_BALANCE, c) EXCEPT !.active_positions = Census(2, 0)] :
                  c \in ChallengeTypes}
    /\ pc = "manage_call"
    /\ now \in Times
    /\ positions \in {ps \in ManagePositionSets :
                        \A t \in DOMAIN ps : NotBefore(now, ps[t].time)}
    /\ orders_sent = 0
    /\ request = NoRequest
    /\ minute_kind = "idle"
    /\ sym_idx = 0
    /\ final_signal = NoSignal
    /\ account_info = NoAccountInfo
    /\ status = NoStatus
    /\ sizing = NoSizing
    /\ gate = NoGate
    /\ cy = NewCycle
    /\ breach_seen = FALSE
    /\ target_seen = FALSE
    /\ signals_in = NoSignals
    /\ before = bot
    /\ bot_state_json = NoFile
    /\ unsaved = FALSE
    /\ managed_in = NoPass

(* FundedFridayTradingBot.manage_positions, called once *)
ManageCall ==
    /\ pc = "manage_call"
    /\ \E got \in {"None", "raise", "list"} :
        IF got = "list"
        THEN \E seen_profit \in [DOMAIN positions -> ManageProfits],
                outcome \in [DOMAIN positions -> {"done", "rejected"}] :
                LET r == ManageLoop(bot, positions, DOMAIN positions, seen_profit,
                                    outcome, seen_profit, now)
                IN  /\ bot' = r.bot
                    /\ positions' = r.positions
                    /\ managed_in' = [got |-> got, positions |-> positions,
                                      seen_profit |-> seen_profit,
                                      requested |-> r.requested]
        ELSE /\ UNCHANGED <<bot, positions>>
             /\ managed_in' = [got |-> got]
    /\ before' = bot
    /\ pc' = "managed"
    /\ UNCHANGED <<now, orders_sent, request, minute_kind, sym_idx, final_signal,
                   account_info, status, sizing, gate, cy, breach_seen, target_seen,
                   signals_in, bot_state_json, unsaved>>

SpecManage == ManageInit /\ [][ManageCall]_vars

---------------------------------------------------------------------------
(* The census over many orders: place_trade on either primary symbol and   *)
(* close_position in any order, on a trading day with a healthy account    *)

MaxCapOrders == 6

CapsInit ==
    /\ bot \in {NewBot(ACCOUNT_BALANCE, c) : c \in ChallengeTypes}
    /\ pc = "caps"
    /\ Constructed

CapsPlace ==
    /\ pc \in {"caps", "placed", "closed"}
    /\ orders_sent < MaxCapOrders
    /\ \E symbol \in {"XAUUSD", "XAGUSD"}, result \in {"done", "rejected"} :
        LET ticket == orders_sent + 1
            info == AccountInfo(ACCOUNT_BALANCE, ACCOUNT_BALANCE)
            r == place_trade(bot, symbol, "BUY", [signal |-> "BUY", strength |-> 9],
                             info, CHOOSE k \in Ticks : ~k.none,
                             CHOOSE i \in SymbolInfos(symbol) : ~i.none,
                             result, ticket, now)
        IN
        /\ bot' = r.bot
        /\ account_info' = info
        /\ status' = r.status
        /\ gate' = [symbol |-> symbol, ret |-> r.gate_ret]
        /\ orders_sent' = IF r.sent THEN orders_sent + 1 ELSE orders_sent
        /\ request' = IF r.sent THEN r.request ELSE request
        /\ positions' = IF r.ret THEN Opened(positions, ticket, symbol, now)
                        ELSE positions
    /\ pc' = "placed"
    /\ UNCHANGED <<now, minute_kind, sym_idx, final_signal, sizing, cy, breach_seen,
                   target_seen, signals_in, before, bot_state_json, unsaved, managed_in>>

(* close_position of an open position; "missing" is a position the broker  *)
(* has closed already                                                      *)
CapsClose ==
    /\ pc \in {"caps", "placed", "closed"}
    /\ \E ticket \in DOMAIN positions, outcome \in {"done", "missing"} :
        LET r == close_position(bot, positions, ticket, outcome, 0) IN
        /\ bot' = r.bot
        /\ positions' = r.positions
    /\ pc' = "closed"
    /\ UNCHANGED <<now, orders_sent, request, minute_kind, sym_idx, final_signal,
                   account_info, status, sizing, gate, cy, breach_seen, target_seen,
                   signals_in, before, bot_state_json, unsaved, managed_in>>

SpecCaps == CapsInit /\ [][CapsPlace \/ CapsClose]_vars

---------------------------------------------------------------------------
(* The levels of an order: one primary symbol of a cycle, from the         *)
(* analyses of the three timeframes to the request handed to order_send    *)

(* what get_market_analysis returns: without rates a HOLD with no atr,     *)
(* otherwise a signal with the ATR of the timeframe, 5.0 or 8.0, in        *)
(* thousandths                                                             *)
LevelAnalyses ==
    {[signal |-> "HOLD", strength |-> 0]}
    \cup [signal : {"BUY", "SELL"}, strength : {3}, atr : {5000, 8000}]

(* the dict _combine_signals returns: "signal", "strength" and "analysis", *)
(* the analyses it was given                                               *)
FinalSignalDict(signals) ==
    LET fs == _combine_signals(signals)
    IN  [signal |-> fs.signal, strength |-> fs.strength, analysis |-> signals]

LevelsInit ==
    /\ bot \in {NewBot(ACCOUNT_BALANCE, c) : c \in ChallengeTypes}
    /\ pc = "levels"
    /\ now = [day |-> 0, hour |-> 12]
    /\ positions = [t \in {} |-> [symbol |-> "", magic |-> 0, time |-> now]]
    /\ orders_sent = 0
    /\ request = NoRequest
    /\ minute_kind = "idle"
    /\ sym_idx = 0
    /\ final_signal = NoSignal
    /\ account_info = NoAccountInfo
    /\ status = NoStatus
    /\ sizing = NoSizing
    /\ gate = NoGate
    /\ cy = NewCycle
    /\ breach_seen = FALSE
    /\ target_seen = FALSE
    /\ signals_in \in [Timeframes -> LevelAnalyses]
    /\ before = bot
    /\ bot_state_json = NoFile
    /\ unsaved = FALSE
    /\ managed_in = NoPass

(* run_trading_cycle for one symbol that passed the gate: _combine_signals *)
(* and, for an actionable signal, place_trade                              *)
LevelsCall ==
    /\ pc = "levels"
    /\ LET fs == FinalSignalDict(signals_in) IN
       /\ final_signal' = [signal |-> fs.signal, strength |-> fs.strength]
       /\ IF Actionable(fs)
          THEN \E symbol \in {"XAUUSD", "XAGUSD"}, tick \in Ticks,
                  result \in OrderResults :
                LET info == AccountInfo(ACCOUNT_BALANCE, ACCOUNT_BALANCE)
                    r == place_trade(bot, symbol, fs.signal, fs, info, tick,
                                     CHOOSE i \in SymbolInfos(symbol) : ~i.none,
                                     result, 1, now)
                IN
                /\ bot' = r.bot
                /\ account_info' = info
                /\ status' = r.status
                /\ gate' = [symbol |-> symbol, ret |-> r.gate_ret]
                /\ orders_sent' = IF r.sent THEN 1 ELSE 0
                /\ request' = IF r.sent THEN r.request ELSE request
                /\ positions' = IF r.ret THEN Opened(positions, 1, symbol, now)
                                ELSE positions
          ELSE UNCHANGED <<bot, account_info, status, gate, orders_sent, request,
                           positions>>
    /\ pc' = "levels_done"
    /\ UNCHANGED <<now, minute_kind, sym_idx, sizing, cy, breach_seen, target_seen,
                   signals_in, before, bot_state_json, unsaved, managed_in>>

SpecLevels == LevelsInit /\ [][LevelsCall]_vars

---------------------------------------------------------------------------
(* An equity path end to end: start_bot over PathLength days, one          *)
(* iteration with a trading cycle per day, the equity falling to the daily *)
(* drawdown limit on day 3 and staying there, an actionable signal at      *)
(* every evaluation                                                        *)

PathLength == 10

(* day n of the path; the bot is constructed on day 0, a Friday, and day 1 *)
(* of the path is the Monday after it                                      *)
PathDay(n) == n + 2

(* 3% below the equity of the days before from day 3 on: the daily         *)
(* drawdown limit is reached on day 3 only, the reset of day 4 makes 9700  *)
(* the start balance of the day                                            *)
PathEquity(day) == IF day >= PathDay(3) THEN 9700 ELSE ACCOUNT_BALANCE

PathInfos == {AccountInfo(PathEquity(now.day), ACCOUNT_BALANCE)}

PathTimes ==
    {t \in [day : {IF now.day = 0 THEN PathDay(1) ELSE now.day + 1}, hour : {12}] :
        t.day <= PathDay(PathLength)}

PathSignalChoices ==
    {s \in [Timeframes -> AnalysisValues] : Actionable(_combine_signals(s))}

PathNext ==
    \/ LoopIterIn(PathTimes, {"hour", "quarter"})
    \/ CycleRefreshIn(PathInfos)
    \/ ManagePositions
    \/ GateAndSignalIn(PathInfos, PathSignalChoices)
    \/ PlaceTradeIn(PathInfos)
    \/ CycleEnd
    \/ SaveState
    \/ StatusCheckIn(PathInfos)
    \/ Cleanup

SpecPath == Init /\ [][PathNext]_vars

---------------------------------------------------------------------------
(* Persistence alone: save_state of a bot that has run, then load_state    *)
(* on a freshly constructed bot, or load_state with no file                *)

(* the days of trading_days, strftime('%Y-%m-%d') of the day of the order *)
PersistDays == 0..1

(* bots that have taken snapshots, placed orders, closed positions and     *)
(* been reset at the start of a day, at the first equity or at 11000       *)
PersistBots ==
    {b \in [account_balance : {ACCOUNT_BALANCE, 10250},
            initial_balance : {ACCOUNT_BALANCE},
            challenge_type : {"ONE_STEP"},
            current_equity : {9400, 11000},
            all_time_high_equity : {ACCOUNT_BALANCE, 11000},
            daily_high_equity : {ACCOUNT_BALANCE, 11000},
            daily_start_balance : {ACCOUNT_BALANCE, 11000},
            total_trades : {0, 2},
            profitable_days : {0, 1},
            trading_days : SUBSET PersistDays,
            daily_profit : {0},
            total_profit : {-200, 0, 300},
            consecutive_losses : {0, 2},
            active_positions : {NewBot(ACCOUNT_BALANCE, "ONE_STEP").active_positions},
            is_trading_enabled : {TRUE}] :
        /\ b.all_time_high_equity >= b.current_equity
        /\ b.daily_high_equity = b.daily_start_balance
        /\ b.all_time_high_equity >= b.daily_start_balance
        /\ b.total_trades >= Cardinality(b.trading_days)
        /\ (b.total_trades = 0 => b.total_profit = 0 /\ b.consecutive_losses = 0)}

PersistInit ==
    /\ bot \in PersistBots
    /\ pc = "persist"
    /\ Constructed

(* save_state of the running bot *)
PersistSave ==
    /\ pc = "persist"
    /\ \E days \in ListsOf(bot.trading_days) :
        bot_state_json' = save_state(bot, days)
    /\ pc' = "saved"
    /\ UNCHANGED <<managed_in, bot, now, positions, orders_sent, request, minute_kind, sym_idx,
                   final_signal, account_info, status, sizing, gate, cy, breach_seen,
                   target_seen, signals_in, before, unsaved>>

(* the next start: __init__, then the load_state of start_bot *)
PersistLoad ==
    /\ pc \in {"persist", "saved"}
    /\ \E c \in {"ONE_STEP", "TWO_STEP"} :
        bot' = load_state(NewBot(ACCOUNT_BALANCE, c), bot_state_json)
    /\ before' = bot
    /\ pc' = "loaded"
    /\ UNCHANGED <<managed_in, now, positions, orders_sent, request, minute_kind, sym_idx,
                   final_signal, account_info, status, sizing, gate, cy, breach_seen,
                   target_seen, signals_in, bot_state_json, unsaved>>

SpecPersist == PersistInit /\ [][PersistSave \/ PersistLoad]_vars

---------------------------------------------------------------------------
(* C21 *)

(* the tickets the step removed from the broker's open positions *)
ClosedByStep == DOMAIN positions \ DOMAIN positions'

(* the step is a successful close with profit p, recorded as C21 says *)
ClosedWith(p) ==
    /\ bot'.daily_profit = bot.daily_profit + p
    /\ bot'.total_profit = bot.total_profit + p
    /\ bot'.consecutive_losses = IF p > 0 THEN 0 ELSE bot.consecutive_losses + 1
    /\ bot'.active_positions =
           [t \in DOMAIN bot.active_positions \ ClosedByStep |-> bot.active_positions[t]]
    /\ DOMAIN bot'.active_positions \cap ClosedByStep = {}

(* C21: a call of close_position that closes the position with profit p    *)
(* adds p to daily_profit and to total_profit, sets consecutive_losses to  *)
(* 0 when p > 0 and increments it otherwise, and removes the ticket from   *)
(* active_positions; a call whose close fails or is rejected leaves        *)
(* daily_profit, total_profit, consecutive_losses and active_positions as  *)
(* they were.                                                              *)
C21_CloseLedger ==
    [][pc' = "closed" =>
          IF ClosedByStep # {}
          THEN \E p \in LedgerProfits : ClosedWith(p)
          ELSE /\ bot'.daily_profit = bot.daily_profit
               /\ bot'.total_profit = bot.total_profit
               /\ bot'.consecutive_losses = bot.consecutive_losses
               /\ bot'.active_positions = bot.active_positions]_vars

(* a position was closed at a profit of 0 after a loss: the streak is 2    *)
(* and the census no longer holds the ticket                               *)
C21_Witness ==
    /\ pc = "closed"
    /\ before.consecutive_losses = 1
    /\ bot.consecutive_losses = 2
    /\ bot.total_profit = before.total_profit
    /\ DOMAIN bot.active_positions # DOMAIN before.active_positions

---------------------------------------------------------------------------
(* C22 *)

(* C22: within a cycle a failing external call while one primary symbol is *)
(* processed affects that symbol only: the cycle goes on to every later    *)
(* primary symbol, so the step that processes a symbol which is not the    *)
(* last one never ends the cycle.                                          *)
C22_LaterSymbolsEvaluated ==
    [][(pc \in {"gate", "place"} /\ sym_idx < Len(PRIMARY_SYMBOLS)) =>
           (pc' # "cycle_end" /\ (pc' = "gate" => sym_idx' = sym_idx + 1))]_vars

---------------------------------------------------------------------------
(* C23 *)

(* C23: the state is persisted at least once per trading cycle: every call *)
(* of run_trading_cycle is followed by a save_state before the next call,  *)
(* so no cycle starts while the cycle before it is still unsaved.          *)
C23_SavedBeforeNextCycle ==
    [][(pc = "loop" /\ pc' = "cycle") => ~unsaved]_vars

---------------------------------------------------------------------------
(* C24 *)

(* the eight fields of the persisted schema *)
Persisted(b) ==
    <<b.account_balance, b.current_equity, b.all_time_high_equity, b.total_trades,
      b.profitable_days, b.trading_days, b.total_profit, b.consecutive_losses>>

(* C24: save_state followed by load_state on a freshly constructed bot     *)
(* gives account_balance, current_equity, all_time_high_equity,            *)
(* total_trades, profitable_days, trading_days, total_profit and           *)
(* consecutive_losses the saved values; with no state file load_state      *)
(* leaves the freshly constructed bot at its challenge defaults.           *)
C24_RoundTrip ==
    pc = "loaded" =>
        IF bot_state_json.exists
        THEN Persisted(bot) = Persisted(before)
        ELSE bot \in {NewBot(ACCOUNT_BALANCE, c) : c \in {"ONE_STEP", "TWO_STEP"}}

(* a bot with two trading days, a high-water mark above its balance and a  *)
(* loss streak was saved and loaded into a new bot                         *)
C24_Witness ==
    /\ pc = "loaded"
    /\ bot_state_json.exists
    /\ Cardinality(bot.trading_days) = 2
    /\ bot.all_time_high_equity = 11000
    /\ bot.account_balance = 10250
    /\ bot.consecutive_losses = 2
    /\ bot.challenge_type # before.challenge_type

---------------------------------------------------------------------------
(* C25 *)

(* C25 as stated: on the path the bot places no trade on day 3, goes on to *)
(* evaluate and trade from day 4, so it does not stop before day 10, and   *)
(* trading_days has 10 entries when day 10 is over.                        *)
C25_TenTradingDays ==
    /\ PathDay(3) \notin bot.trading_days
    /\ pc = "stopped" => now.day = PathDay(PathLength)
    /\ (now.day = PathDay(PathLength) /\ pc = "loop") =>
           Cardinality(bot.trading_days) = 10

(* C25 as amended: on the path the bot places no trade in the cycle of day *)
(* 3; the status check of the main loop that follows sees the breach,      *)
(* disables trading and ends the loop, so the bot evaluates and trades     *)
(* nothing from day 4 on, and trading_days holds at most the 2 entries of  *)
(* day 1 and day 2.                                                        *)
C25_StopsOnDay3 ==
    /\ [](/\ bot.trading_days \subseteq {PathDay(1), PathDay(2)}
          /\ now.day <= PathDay(3)
          /\ pc \in {"cleanup", "stopped"} =>
                 (now.day = PathDay(3) /\ ~bot.is_trading_enabled)
          /\ (now.day = PathDay(3) /\ pc = "loop") => FALSE)
    /\ [][now.day = PathDay(3) =>
              (orders_sent' = orders_sent /\ pc' \notin {"manage", "gate", "place"})]_vars

(* the bot has stopped on day 3 after trading on day 1 and on day 2 *)
C25_Witness ==
    /\ pc = "stopped"
    /\ now.day = PathDay(3)
    /\ bot.trading_days = {PathDay(1), PathDay(2)}
    /\ bot.total_trades = 4

---------------------------------------------------------------------------
(* C26 *)

(* the step changes one of the fields daily_reset resets to the equity *)
DailyBaseMoves ==
    \/ bot'.daily_start_balance # bot.daily_start_balance
    \/ bot'.daily_high_equity # bot.daily_high_equity

(* the step is a whole daily_reset, taken between two iterations *)
WholeReset ==
    /\ pc = "loop"
    /\ now'.day > now.day
    /\ bot'.daily_profit = 0
    /\ bot'.daily_start_balance = bot.current_equity
    /\ bot'.daily_high_equity = bot.current_equity

(* C26: in the main loop daily_reset and a trading cycle never interleave: *)
(* the step that begins a new day resets daily_profit,                     *)
(* daily_start_balance and daily_high_equity together, before any step of  *)
(* a refresh or a cycle, and no step of a refresh or a cycle starts from   *)
(* or produces a state in which only some of them are reset.               *)
C26_ResetAtomic ==
    [][/\ now'.day > now.day => WholeReset
       /\ DailyBaseMoves => WholeReset
       /\ pc # "loop" => now' = now]_vars

(* the first refresh of a cycle reads a bot whose three daily fields were  *)
(* reset at an equity of 11000                                             *)
C26_Witness ==
    /\ pc = "cycle"
    /\ now.day = 1
    /\ bot.current_equity = 11000
    /\ bot.daily_start_balance = 11000
    /\ bot.daily_high_equity = 11000
    /\ bot.daily_profit = 0

---------------------------------------------------------------------------
(* C27 *)

(* the steps of run_trading_cycle *)
CyclePcs == {"cycle", "manage", "gate", "place"}

(* how far run_trading_cycle has come *)
CycleRank ==
    CASE pc = "cycle" -> 0
      [] pc = "manage" -> 1
      [] pc = "gate" -> 2 * sym_idx
      [] pc = "place" -> 2 * sym_idx + 1
      [] OTHER -> 2 * Len(PRIMARY_SYMBOLS) + 2

(* C27: no error propagates out of a call of run_trading_cycle: whatever   *)
(* the external calls do (no snapshot, a failing positions query, no       *)
(* signal, an order that is rejected or raises), every step of the cycle   *)
(* moves the cycle forward and leads to a later step of the cycle or to    *)
(* its normal return to start_bot, never to the handler of the main loop.  *)
C27_CycleReturns ==
    [][(pc \in CyclePcs) =>
           (pc' \in CyclePcs \cup {"cycle_end"} /\ CycleRank' > CycleRank)]_vars

(* the cycle has returned after an order was sent for the first symbol and *)
(* the snapshot was missing in the gate of the second                      *)
C27_Witness ==
    /\ pc = "cycle_end"
    /\ gate = [symbol |-> "XAGUSD", ret |-> "KeyError"]
    /\ account_info.none
    /\ orders_sent = 1

---------------------------------------------------------------------------
(* C28 *)

(* run_trading_cycle has returned after its management pass and its loop   *)
(* over the primary symbols, with no exception                             *)
CycleCompleted ==
    /\ pc = "cycle_end"
    /\ cy.managed
    /\ gate.ret # "KeyError"

(* C28: active_positions mirrors the broker: after every completed trading *)
(* cycle its tickets are the tickets of the bot's positions that are open  *)
(* at the broker, also when the broker has closed a position by its        *)
(* stop-loss or take-profit.                                               *)
C28_CensusMirrorsBroker ==
    CycleCompleted =>
        DOMAIN bot.active_positions = {t \in DOMAIN positions : positions[t].magic = BOT_MAGIC}

---------------------------------------------------------------------------
(* C29 *)

(* the early-close policy as C29 states it, for position t of the pass *)
PolicyHolds(t) ==
    \/ Weekday(now) = FRIDAY /\ now.hour >= 23
    \/ HoursBetween(managed_in.positions[t].time, now) > 24
    \/ managed_in.seen_profit[t] * 100 > before.current_equity * 2

---------------------------------------------------------------------------
(* C30 *)

(* C30: in every reachable state active_positions holds at most            *)
(* max_concurrent_trades positions in total and at most                    *)
(* max_trades_per_symbol positions of each symbol.                         *)
C30_CensusCaps ==
    /\ Cardinality(DOMAIN bot.active_positions) <= MAX_CONCURRENT_TRADES
    /\ \A i \in DOMAIN PRIMARY_SYMBOLS :
           SymbolTrades(bot, PRIMARY_SYMBOLS[i]) <= MAX_TRADES_PER_SYMBOL

(* with three positions in XAUUSD and two in XAGUSD an order for XAGUSD,   *)
(* which has room of its own, was refused                                  *)
C30_Witness ==
    /\ pc = "placed"
    /\ Cardinality(DOMAIN bot.active_positions) = MAX_CONCURRENT_TRADES
    /\ SymbolTrades(bot, "XAUUSD") = MAX_TRADES_PER_SYMBOL
    /\ SymbolTrades(bot, "XAGUSD") < MAX_TRADES_PER_SYMBOL
    /\ gate = [symbol |-> "XAGUSD", ret |-> "False"]

---------------------------------------------------------------------------
(* C31 *)

(* mt5.account_info() after the restart: 9400, 10600 and 11000 of equity *)
RestartInfos == {AccountInfo(e, ACCOUNT_BALANCE) : e \in {9400, 10600, 11000}}

(* C31: the drawdown baselines survive a restart: after save_state, the    *)
(* construction of a new bot and load_state, initial_balance,              *)
(* daily_start_balance and daily_high_equity have the values they had      *)
(* before, so a refresh with the same equity gives the same breach list    *)
(* before and after the restart (of a bot of the same challenge type).     *)
C31_BaselinesSurvive ==
    (pc = "loaded" /\ bot_state_json.exists
        /\ bot.challenge_type = before.challenge_type) =>
        /\ bot.initial_balance = before.initial_balance
        /\ bot.daily_start_balance = before.daily_start_balance
        /\ bot.daily_high_equity = before.daily_high_equity
        /\ \A info \in RestartInfos :
               check_account_status(bot, info).status.breaches
                   = check_account_status(before, info).status.breaches

---------------------------------------------------------------------------
(* C32 *)

(* the levels of the request are those of an ATR of atr *)
LevelsOf(atr) ==
    /\ Abs(request.price - request.sl) = 2 * atr
    /\ Abs(request.tp - request.price) = 3 * atr
    /\ IF request.type = "BUY"
       THEN request.sl < request.price /\ request.price < request.tp
       ELSE request.tp < request.price /\ request.price < request.sl

(* C32: for every order a trading cycle places, the stop is 2 ATR from the *)
(* entry price and the target 3 ATR, for an ATR carried by the analyses of *)
(* the symbol in that cycle, the stop below and the target above the entry *)
(* for BUY and the reverse for SELL.                                       *)
C32_LevelsFromAtr ==
    (pc = "levels_done" /\ orders_sent = 1) =>
        \E tf \in Timeframes :
            /\ "atr" \in DOMAIN signals_in[tf]
            /\ LevelsOf(signals_in[tf].atr)

===========================================================================
